---- MODULE Spec2Model ----
(***************************************************************************)
(* Model of the BCC peer subprotocol servers of trinity                    *)
(* (trinity/protocol/bcc/servers.py and trinity/protocol/bcc/proto.py):    *)
(* the attestation pool, the orphan block pool, the receive server's three *)
(* message handlers with the block-import pipeline and the orphan          *)
(* drainage, and the request server's canonical-chain walk.                *)
(***************************************************************************)
EXTENDS Integers, Sequences, FiniteSets, TLC

(***************************************************************************)
(* Bounds of the model.                                                    *)
(***************************************************************************)
\* signatures 0..MaxSignature: blocks with one signing_root may differ in
\* their (unchecked, servers.py:403) proposer signature
MaxSignature == 1
\* request ids 1..MaxRequestId are handed out by gen_request_id
MaxRequestId == 3
\* longest list of attestations carried by one Attestations message
MaxAttestations == 2
\* longest list of blocks carried by one BeaconBlocks message
MaxReplyBlocks == 2
\* largest max_blocks of a GetBeaconBlocks request
MaxBlocks == 4

(***************************************************************************)
(* The universe of blocks and attestations the peers can send.             *)
(* A signing_root fixes every field of a block but its signature.          *)
(***************************************************************************)
GenesisRoot == 0
NoRoot == 0 - 1
\* the roots of the blocks sent to the receive server
BlockRoots == {1, 2, 3, 4}
\* the roots of the blocks in the DB the request server serves from, and a
\* root that DB does not hold
ChainRoots == {GenesisRoot, 1, 2, 3, 4, 5}
UnknownRoot == NoRoot - 1
\* the roots of the orphans a drainage is stepped through: below block 1 the
\* branches 2 <- 3 and 4 <- 5 <- 6
DrainRoots == {2, 3, 4, 5, 6}
Signatures == 0..MaxSignature
AttestationRoots == {1, 2}

\* an Attestation value; its hash_tree_root covers the whole value
Attestation(r) == [hash_tree_root |-> r]
Attestations == {Attestation(r) : r \in AttestationRoots}

\* a Python tuple object (an Attestation never equals a tuple)
PyTuple(items) == [items |-> items]

\* block.parent_root: two branches, 1 <- 2 <- 3 and 1 <- 4 <- 5, with 1 a
\* child of genesis
ParentOf == [r \in ChainRoots \cup DrainRoots |->
                                  CASE r = GenesisRoot -> NoRoot
                                    [] r = 1 -> GenesisRoot
                                    [] r = 2 -> 1
                                    [] r = 3 -> 2
                                    [] r = 4 -> 1
                                    [] r = 5 -> 4
                                    [] r = 6 -> 5]
\* block.slot
SlotOf == [r \in ChainRoots \cup DrainRoots |->
                                CASE r = GenesisRoot -> 0
                                  [] r = 1 -> 1
                                  [] r = 2 -> 2
                                  [] r = 3 -> 3
                                  [] r = 4 -> 2
                                  [] r = 5 -> 3
                                  [] r = 6 -> 4]
\* block.body.attestations
BodyOf == [r \in BlockRoots \cup DrainRoots |->
                                CASE r = 1 -> <<Attestation(1)>>
                                  [] r = 2 -> <<Attestation(2)>>
                                  [] r = 3 -> <<>>
                                  [] r = 4 -> <<Attestation(1)>>
                                  [] r = 5 -> <<>>
                                  [] r = 6 -> <<Attestation(2)>>]

Blocks == [signing_root : BlockRoots, signature : Signatures]
\* the blocks the peers send to the receive server: every root, and root 2
\* under every signature
ReceivedBlocks == {b \in Blocks : b.signature = 0 \/ b.signing_root = 2}
parent_root(block) == ParentOf[block.signing_root]
body_attestations(block) == PyTuple(BodyOf[block.signing_root])

Range(seq) == {seq[i] : i \in 1..Len(seq)}
SeqsUpTo(S, n) == UNION {[1..k -> S] : k \in 0..n}

(***************************************************************************)
(* Peers.  A peer object has a remote identity and owns its is_operational *)
(* flag; the peer pool's connected_nodes maps each remote to one peer      *)
(* object, so the connected peers have distinct remotes.  Peer 3 is a      *)
(* second peer object of remote "A" (a session that was replaced), peer 4  *)
(* a peer that is not operational.                                         *)
(***************************************************************************)
Peers == {[id |-> 1, remote |-> "A", is_operational |-> TRUE],
          [id |-> 2, remote |-> "B", is_operational |-> TRUE],
          [id |-> 3, remote |-> "A", is_operational |-> TRUE],
          [id |-> 4, remote |-> "B", is_operational |-> FALSE]}
\* the values of connected_nodes, in the dict's iteration order
PeerPools == {ps \in SeqsUpTo({p \in Peers : p.id <= 2}, 2) :
                \A i, j \in 1..Len(ps) : i < j => ps[i].id < ps[j].id}

VARIABLES
  connected_nodes,             \* self._peer_pool.connected_nodes.values()
  chain_db,                    \* roots chain.get_block_by_root finds
  chain_attestations,          \* roots chain.attestation_exists reports
  attestation_pool,            \* AttestationPool._pool
  orphan_block_pool,           \* OrphanBlockPool._pool
  map_request_id_block_root,   \* BCCReceiveServer.map_request_id_block_root
  next_request_id,             \* the next id gen_request_id hands out
  handled,                     \* the message the last handler run was given
  outcome,                     \* how that run ended
  returned,                    \* what _process_received_block returned in it
  sent,                        \* the sub_proto.send_* calls of that run
  import_calls,                \* the chain.import_block calls of that run
  canonical_head,              \* head of the canonical chain of self.db
  walk,                        \* the suspended _get_blocks generator
  reply,                       \* the last send_blocks of the request server
  reads,                       \* the canonical heads its DB reads have seen
  transport,                   \* what BCCProtocol handed to transport.send
  handshake,                   \* the last send_handshake call and how it ended
  drain                        \* _try_import_orphan_blocks run step by step

recvVars == <<connected_nodes, chain_db, chain_attestations, attestation_pool,
              orphan_block_pool, map_request_id_block_root, next_request_id,
              handled, outcome, returned, sent, import_calls>>
reqVars == <<canonical_head, walk, reply, reads>>
protoVars == <<transport, handshake>>
vars == <<recvVars, reqVars, protoVars, drain>>

(***************************************************************************)
(* BCCProtocol (proto.py:56-120): the handshake.                           *)
(***************************************************************************)
\* BCCProtocol.version
version == 0
\* protocol versions, network ids and head slots 0..MaxHandshakeField
MaxHandshakeField == 1
\* messages the transport is handed before the connection is closed
MaxTransport == 2

\* BCCHandshakeParams
BCCHandshakeParams ==
  [protocol_version : 0..MaxHandshakeField, network_id : 0..MaxHandshakeField,
   genesis_root : {GenesisRoot, 1}, head_slot : 0..MaxHandshakeField]

\* StatusMessage
StatusMessage(protocol_version, network_id, genesis_root, head_slot) ==
  [protocol_version |-> protocol_version, network_id |-> network_id,
   genesis_root |-> genesis_root, head_slot |-> head_slot]

\* cmd.encode(payload): the header names the command, the body carries the
\* encoded payload
cmd_encode(cmd, payload) ==
  [header |-> [cmd |-> cmd], body |-> [encoded |-> payload]]
cmd_decode(message) == message.body.encoded

\* send_handshake without the comparison of the versions
send_handshake_unchecked(sent_, handshake_params) ==
  [transport |-> Append(sent_,
      cmd_encode("Status",
                 StatusMessage(handshake_params.protocol_version,
                               handshake_params.network_id,
                               handshake_params.genesis_root,
                               handshake_params.head_slot))),
   raised |-> "none"]

\* BCCProtocol.send_handshake: what the transport has been handed after the
\* call, and the exception the call raised
send_handshake(sent_, handshake_params) ==
  IF version # handshake_params.protocol_version
  THEN [transport |-> sent_, raised |-> "ValidationError"]
  ELSE [transport |-> Append(sent_,
           cmd_encode("Status",
                      StatusMessage(handshake_params.protocol_version,
                                    handshake_params.network_id,
                                    handshake_params.genesis_root,
                                    handshake_params.head_slot))),
        raised |-> "none"]

NoHandshake == [params |-> StatusMessage(0, 0, 0, 0), raised |-> "not called"]
ProtoIdle ==
  /\ transport = <<>>
  /\ handshake = NoHandshake

(***************************************************************************)
(* AttestationPool (servers.py:212-261).                                   *)
(***************************************************************************)
\* AttestationPool.get / __contains__ with a root
attestation_pool_contains(pool, root) ==
  \E attestation \in pool : attestation.hash_tree_root = root

\* AttestationPool.add
attestation_pool_add(pool, attestation) ==
  IF attestation \notin pool THEN pool \cup {attestation} ELSE pool

\* AttestationPool.batch_add
attestation_pool_batch_add(pool, attestations) ==
  pool \cup Range(attestations)

\* AttestationPool.remove: the argument is looked up in the set as one value
attestation_pool_remove(pool, attestation) ==
  IF attestation \in pool THEN pool \ {attestation} ELSE pool

\* AttestationPool.batch_remove
attestation_pool_batch_remove(pool, attestations) ==
  pool \ Range(attestations)

(***************************************************************************)
(* OrphanBlockPool (servers.py:264-306).                                   *)
(***************************************************************************)
\* OrphanBlockPool.get / __contains__ with a block or a root
orphan_block_pool_contains(pool, block_root) ==
  \E block \in pool : block.signing_root = block_root

\* OrphanBlockPool.add: membership of the block value in the set
orphan_block_pool_add(pool, block) ==
  IF block \in pool THEN pool ELSE pool \cup {block}

\* the orders in which a set of blocks can be iterated
AllBlocksAscending ==
  [i \in 1..(Cardinality(BlockRoots) * (MaxSignature + 1)) |->
     [signing_root |-> ((i - 1) \div (MaxSignature + 1)) + 1,
      signature |-> (i - 1) % (MaxSignature + 1)]]
Reverse(seq) == [i \in 1..Len(seq) |-> seq[Len(seq) + 1 - i]]
IterationOrders == {AllBlocksAscending, Reverse(AllBlocksAscending)}

\* pop_children stopping at the first child it finds
pop_children_first_only(pool, block_root, order) ==
  LET IsChild(block) == block \in pool /\ parent_root(block) = block_root
      children == SelectSeq(order, IsChild)
      first == IF children = <<>> THEN <<>> ELSE <<Head(children)>>
  IN  [children |-> first, pool |-> pool \ Range(first)]

\* OrphanBlockPool.pop_children: the children in iteration order, and the
\* pool without them
pop_children(pool, block_root, order) ==
  LET IsChild(block) == block \in pool /\ parent_root(block) = block_root
      children == SelectSeq(order, IsChild)
  IN  [children |-> children, pool |-> pool \ Range(children)]

(***************************************************************************)
(* BCCReceiveServer (servers.py:309-565).  The handlers are run one at a   *)
(* time; a run is a function of the server's state s, a record of          *)
(*   db, atts      the chain DB (block roots, attestation roots)           *)
(*   apool, opool  the two pools                                           *)
(*   reqs, nid     the pending-request table and the next request id       *)
(*   sent, imports the sends and import_block calls made so far            *)
(*   fatal         an exception other than ValidationError is propagating  *)
(***************************************************************************)
NoBlock == [signing_root |-> NoRoot, signature |-> 0]
NoPeer == [id |-> 0, remote |-> "none", is_operational |-> FALSE]

\* one call of a peer's sub_proto.send_*
Sent(peer, cmd, block, attestations, block_root, max_blocks, request_id) ==
  [to |-> peer, cmd |-> cmd, block |-> block, attestations |-> attestations,
   block_root |-> block_root, max_blocks |-> max_blocks,
   request_id |-> request_id]

\* BCCReceiveServer._is_block_root_in_db
is_block_root_in_db(s, block_root) == block_root \in s.db

\* BCCReceiveServer._is_block_root_in_orphan_block_pool
is_block_root_in_orphan_block_pool(s, block_root) ==
  orphan_block_pool_contains(s.opool, block_root)

\* _is_block_root_seen without the look into the orphan pool
is_block_root_seen_db_only(s, block_root) ==
  is_block_root_in_db(s, block_root)

\* BCCReceiveServer._is_block_root_seen
is_block_root_seen(s, block_root) ==
  IF is_block_root_in_orphan_block_pool(s, block_root) THEN TRUE
  ELSE is_block_root_in_db(s, block_root)

\* BCCReceiveServer._is_block_seen
is_block_seen(s, block) == is_block_root_seen(s, block.signing_root)

\* skip_peer comparing the peer objects instead of their remotes
skip_peer_by_object(peer, from_peer) ==
  from_peer # NoPeer /\ peer = from_peer

\* whether the loop of a broadcast skips this connected peer
skip_peer(peer, from_peer) ==
  from_peer # NoPeer /\ peer.remote = from_peer.remote

\* _broadcast_block without the check that skips the sender
broadcast_block_to_all(s, block, from_peer) ==
  [s EXCEPT !.sent = s.sent \o
     [i \in 1..Len(connected_nodes) |->
        Sent(connected_nodes[i], "send_new_block", block, <<>>, NoRoot, 0, 0)]]

\* BCCReceiveServer._broadcast_block
broadcast_block(s, block, from_peer) ==
  LET Keep(peer) == ~skip_peer(peer, from_peer)
      recipients == SelectSeq(connected_nodes, Keep)
  IN  [s EXCEPT !.sent = s.sent \o
        [i \in 1..Len(recipients) |->
           Sent(recipients[i], "send_new_block", block, <<>>, NoRoot, 0, 0)]]

\* BCCReceiveServer._broadcast_attestations
broadcast_attestations(s, attestations, from_peer) ==
  LET Keep(peer) == ~skip_peer(peer, from_peer)
      recipients == SelectSeq(connected_nodes, Keep)
  IN  [s EXCEPT !.sent = s.sent \o
        [i \in 1..Len(recipients) |->
           Sent(recipients[i], "send_attestation_records", NoBlock,
                attestations, NoRoot, 0, 0)]]

\* _request_block_from_peers drawing one request id for the whole loop
request_block_from_peers_one_id(s, block_root, peers) ==
  IF peers = <<>> THEN s
  ELSE [s EXCEPT
          !.nid = s.nid + 1,
          !.reqs = [i \in DOMAIN s.reqs \cup {s.nid} |->
                      IF i = s.nid THEN block_root ELSE s.reqs[i]],
          !.sent = s.sent \o
             [i \in 1..Len(peers) |->
                Sent(peers[i], "send_get_blocks", NoBlock, <<>>, block_root,
                     1, s.nid)]]

\* BCCReceiveServer._request_block_from_peers: one fresh request id, one
\* table entry and one send_get_blocks per connected peer
RECURSIVE request_block_from_peers(_, _, _)
request_block_from_peers(s, block_root, peers) ==
  IF peers = <<>> THEN s
  ELSE LET request_id == s.nid
           s1 == [s EXCEPT
                    !.nid = s.nid + 1,
                    !.reqs = [i \in DOMAIN s.reqs \cup {request_id} |->
                                IF i = request_id THEN block_root
                                ELSE s.reqs[i]],
                    !.sent = Append(s.sent,
                               Sent(Head(peers), "send_get_blocks", NoBlock,
                                    <<>>, block_root, 1, request_id))]
       IN  request_block_from_peers(s1, block_root, Tail(peers))

\* chain.import_block with the chain's verdict on the block: "ok" stores the
\* block and the attestations of its body, "invalid" is a ValidationError,
\* "fatal" any other exception
import_block(s, block, verdict) ==
  LET logged == [s EXCEPT !.imports =
                   Append(s.imports, [block |-> block,
                                      verdict |-> verdict[block.signing_root],
                                      known |-> block.signing_root \in s.db])]
  IN  IF verdict[block.signing_root] = "ok"
      THEN [logged EXCEPT !.db = s.db \cup {block.signing_root},
                          !.atts = s.atts \cup
                             {a.hash_tree_root : a \in Range(BodyOf[block.signing_root])}]
      ELSE IF verdict[block.signing_root] = "fatal"
      THEN [logged EXCEPT !.fatal = TRUE]
      ELSE logged

\* the loop without imported_roots.append: an imported child is not enqueued
enqueue_imported_dropped(imported_roots, block) == imported_roots

\* imported_roots.append(block.signing_root)
enqueue_imported(imported_roots, block) ==
  Append(imported_roots, block.signing_root)

\* the for loop of _try_import_orphan_blocks over the popped children
RECURSIVE import_children(_, _, _, _)
import_children(s, imported_roots, children, verdict) ==
  IF children = <<>> \/ s.fatal
  THEN [s |-> s, imported_roots |-> imported_roots]
  ELSE LET block == Head(children)
           s1 == import_block(s, block, verdict)
       IN  IF verdict[block.signing_root] = "ok"
           THEN import_children(s1, enqueue_imported(imported_roots, block),
                                Tail(children), verdict)
           ELSE IF verdict[block.signing_root] = "invalid"
           THEN import_children(
                  [s1 EXCEPT !.apool =
                     attestation_pool_remove(s1.apool, body_attestations(block))],
                  imported_roots, Tail(children), verdict)
           ELSE import_children(s1, imported_roots, Tail(children), verdict)

\* imported_roots[-1] read without being taken from the worklist
next_parent_root_peek(imported_roots) ==
  [root |-> imported_roots[Len(imported_roots)], rest |-> imported_roots]

\* which root the while loop of _try_import_orphan_blocks takes from its
\* worklist, and what it leaves: list.pop() takes the last one
next_parent_root(imported_roots) ==
  [root |-> imported_roots[Len(imported_roots)],
   rest |-> SubSeq(imported_roots, 1, Len(imported_roots) - 1)]

\* the while loop of _try_import_orphan_blocks
RECURSIVE try_import_loop(_, _, _, _)
try_import_loop(s, imported_roots, verdict, order) ==
  IF imported_roots = <<>> \/ s.fatal THEN s
  ELSE LET next == next_parent_root(imported_roots)
       IN  IF ~is_block_root_in_db(s, next.root)
           THEN try_import_loop(s, next.rest, verdict, order)
           ELSE LET popped == pop_children(s.opool, next.root, order)
                    r == import_children([s EXCEPT !.opool = popped.pool],
                                         next.rest, popped.children, verdict)
                IN  try_import_loop(r.s, r.imported_roots, verdict, order)

\* BCCReceiveServer._try_import_orphan_blocks
try_import_orphan_blocks(s, parent, verdict, order) ==
  try_import_loop(s, <<parent>>, verdict, order)

\* _process_received_block returning True from the ValidationError branch
process_received_block_invalid_accepted(s, block, verdict, order) ==
  IF ~is_block_root_in_db(s, parent_root(block))
  THEN IF ~orphan_block_pool_contains(s.opool, block.signing_root)
       THEN [s |-> request_block_from_peers(
                     [s EXCEPT !.opool = orphan_block_pool_add(s.opool, block)],
                     parent_root(block), connected_nodes),
             returned |-> "false"]
       ELSE [s |-> s, returned |-> "false"]
  ELSE LET s1 == import_block(s, block, verdict)
       IN  IF verdict[block.signing_root] = "invalid"
           THEN [s |-> s1, returned |-> "true"]
           ELSE IF verdict[block.signing_root] = "fatal"
           THEN [s |-> s1, returned |-> "raised"]
           ELSE LET s2 == try_import_orphan_blocks(s1, block.signing_root,
                                                   verdict, order)
                IN  IF s2.fatal THEN [s |-> s2, returned |-> "raised"]
                    ELSE [s |-> [s2 EXCEPT !.apool =
                                   attestation_pool_remove(
                                     s2.apool, body_attestations(block))],
                          returned |-> "true"]

\* BCCReceiveServer._process_received_block: the state after it and what it
\* returned ("true", "false", or "raised" with s.fatal set)
process_received_block(s, block, verdict, order) ==
  IF ~is_block_root_in_db(s, parent_root(block))
  THEN IF ~orphan_block_pool_contains(s.opool, block.signing_root)
       THEN [s |-> request_block_from_peers(
                     [s EXCEPT !.opool = orphan_block_pool_add(s.opool, block)],
                     parent_root(block), connected_nodes),
             returned |-> "false"]
       ELSE [s |-> s, returned |-> "false"]
  ELSE LET s1 == import_block(s, block, verdict)
       IN  IF verdict[block.signing_root] = "invalid"
           THEN [s |-> s1, returned |-> "false"]
           ELSE IF verdict[block.signing_root] = "fatal"
           THEN [s |-> s1, returned |-> "raised"]
           ELSE LET s2 == try_import_orphan_blocks(s1, block.signing_root,
                                                   verdict, order)
                IN  IF s2.fatal THEN [s |-> s2, returned |-> "raised"]
                    ELSE [s |-> [s2 EXCEPT !.apool =
                                   attestation_pool_remove(
                                     s2.apool, body_attestations(block))],
                          returned |-> "true"]

(***************************************************************************)
(* The wire payloads carry ssz-encoded blocks and attestations; the        *)
(* handlers decode each element.                                           *)
(***************************************************************************)
ssz_encode(value) == [ssz |-> value]
ssz_decode(encoded) == encoded.ssz

\* BCCReceiveServer._validate_attestations: the attestations that
\* validate_attestation accepts, in message order
validate_attestations(attestations, accepted) ==
  LET IsValid(attestation) == attestation \in accepted
  IN  SelectSeq(attestations, IsValid)

\* chain.attestation_exists: true for a root in the chain; for any other
\* root False, or AttestationNotFound when the chain raises on a miss
attestation_exists(s, root, raises) ==
  IF root \in s.atts THEN "true"
  ELSE IF raises THEN "AttestationNotFound" ELSE "false"

\* BCCReceiveServer._is_attestation_new
is_attestation_new(s, attestation, raises) ==
  IF attestation_pool_contains(s.apool, attestation.hash_tree_root)
  THEN TRUE
  ELSE IF attestation_exists(s, attestation.hash_tree_root, raises)
            = "AttestationNotFound"
  THEN TRUE
  ELSE attestation_exists(s, attestation.hash_tree_root, raises) # "true"

\* a handler run: the server state after it and how it ended
Run(s, outcome_, returned_) ==
  [s |-> s, outcome |-> outcome_, returned |-> returned_]

\* BCCReceiveServer._handle_attestations
handle_attestations(s, peer, msg, accepted, raises) ==
  IF ~peer.is_operational THEN Run(s, "ignored", "none")
  ELSE LET attestations ==
             [i \in 1..Len(msg.encoded_attestations) |->
                ssz_decode(msg.encoded_attestations[i])]
           valid_attestations == validate_attestations(attestations, accepted)
           IsNew(attestation) == is_attestation_new(s, attestation, raises)
           valid_new_attestations == SelectSeq(valid_attestations, IsNew)
       IN  IF Len(valid_attestations) = 0 THEN Run(s, "returned", "none")
           ELSE IF Len(valid_new_attestations) = 0
           THEN Run(s, "returned", "none")
           ELSE Run(broadcast_attestations(
                      [s EXCEPT !.apool = attestation_pool_batch_add(
                                            s.apool, valid_new_attestations)],
                      valid_new_attestations, peer),
                    "returned", "none")

\* the pending-request entry left in the table
delete_request_skipped(reqs, request_id) == reqs

\* del self.map_request_id_block_root[request_id]
delete_request(reqs, request_id) ==
  [i \in DOMAIN reqs \ {request_id} |-> reqs[i]]

\* _handle_beacon_blocks without the comparison of the block's signing_root
\* with the root recorded for the request
handle_beacon_blocks_any_root(s, peer, msg, verdict, order) ==
  IF ~peer.is_operational THEN Run(s, "ignored", "none")
  ELSE IF msg.request_id \notin DOMAIN s.reqs THEN Run(s, "fault", "none")
  ELSE IF Len(msg.encoded_blocks) # 1 THEN Run(s, "fault", "none")
  ELSE LET block == ssz_decode(msg.encoded_blocks[1])
           r == process_received_block(s, block, verdict, order)
       IN  IF r.returned = "raised"
           THEN Run(r.s, "fatal", r.returned)
           ELSE Run([r.s EXCEPT !.reqs =
                       delete_request(r.s.reqs, msg.request_id)],
                    "returned", r.returned)

\* BCCReceiveServer._handle_beacon_blocks
handle_beacon_blocks(s, peer, msg, verdict, order) ==
  IF ~peer.is_operational THEN Run(s, "ignored", "none")
  ELSE IF msg.request_id \notin DOMAIN s.reqs THEN Run(s, "fault", "none")
  ELSE IF Len(msg.encoded_blocks) # 1 THEN Run(s, "fault", "none")
  ELSE LET block == ssz_decode(msg.encoded_blocks[1])
       IN  IF block.signing_root # s.reqs[msg.request_id]
           THEN Run(s, "fault", "none")
           ELSE LET r == process_received_block(s, block, verdict, order)
                IN  IF r.returned = "raised"
                    THEN Run(r.s, "fatal", r.returned)
                    ELSE Run([r.s EXCEPT !.reqs =
                                delete_request(r.s.reqs, msg.request_id)],
                             "returned", r.returned)

\* _handle_new_beacon_block without the look at peer.is_operational
handle_new_beacon_block_any_peer(s, peer, msg, verdict, order) ==
  LET block == ssz_decode(msg.encoded_block)
  IN  IF is_block_seen(s, block) THEN Run(s, "fault", "none")
      ELSE LET r == process_received_block(s, block, verdict, order)
           IN  IF r.returned = "raised"
               THEN Run(r.s, "fatal", r.returned)
               ELSE IF r.returned = "true"
               THEN Run(broadcast_block(r.s, block, peer),
                        "returned", r.returned)
               ELSE Run(r.s, "returned", r.returned)

\* _handle_new_beacon_block broadcasting whatever the pipeline returned
handle_new_beacon_block_always_broadcast(s, peer, msg, verdict, order) ==
  IF ~peer.is_operational THEN Run(s, "ignored", "none")
  ELSE LET block == ssz_decode(msg.encoded_block)
       IN  IF is_block_seen(s, block) THEN Run(s, "fault", "none")
           ELSE LET r == process_received_block(s, block, verdict, order)
                IN  IF r.returned = "raised"
                    THEN Run(r.s, "fatal", r.returned)
                    ELSE Run(broadcast_block(r.s, block, peer),
                             "returned", r.returned)

\* BCCReceiveServer._handle_new_beacon_block
handle_new_beacon_block(s, peer, msg, verdict, order) ==
  IF ~peer.is_operational THEN Run(s, "ignored", "none")
  ELSE LET block == ssz_decode(msg.encoded_block)
       IN  IF is_block_seen(s, block) THEN Run(s, "fault", "none")
           ELSE LET r == process_received_block(s, block, verdict, order)
                IN  IF r.returned = "raised"
                    THEN Run(r.s, "fatal", r.returned)
                    ELSE IF r.returned = "true"
                    THEN Run(broadcast_block(r.s, block, peer),
                             "returned", r.returned)
                    ELSE Run(r.s, "returned", r.returned)

(***************************************************************************)
(* The receive server as a state machine: one action per handler.          *)
(***************************************************************************)
\* the verdicts chain.import_block can give on the blocks
Verdicts == [BlockRoots -> {"ok", "invalid", "fatal"}]
AllOk == [r \in BlockRoots |-> "ok"]

\* the message a handler was given
Handled(cmd, peer, block, request_id, blocks, attestations, accepted) ==
  [cmd |-> cmd, peer |-> peer, block |-> block, request_id |-> request_id,
   blocks |-> blocks, attestations |-> attestations, accepted |-> accepted]

\* the server's state at the start of a handler run
ServerState ==
  [db |-> chain_db, atts |-> chain_attestations, apool |-> attestation_pool,
   opool |-> orphan_block_pool, reqs |-> map_request_id_block_root,
   nid |-> next_request_id, sent |-> <<>>, imports |-> <<>>, fatal |-> FALSE]

\* the message the server loop is waiting for
NoMessage == Handled("none", NoPeer, NoBlock, 0, <<>>, <<>>, {})

\* the state a handler run leaves; gen_request_id has MaxRequestId ids
Finish(run, msg) ==
  /\ run.s.nid <= MaxRequestId + 1
  /\ chain_db' = run.s.db
  /\ chain_attestations' = run.s.atts
  /\ attestation_pool' = run.s.apool
  /\ orphan_block_pool' = run.s.opool
  /\ map_request_id_block_root' = run.s.reqs
  /\ next_request_id' = run.s.nid
  /\ sent' = run.s.sent
  /\ import_calls' = run.s.imports
  /\ outcome' = run.outcome
  /\ returned' = run.returned
  /\ handled' = msg
  /\ UNCHANGED <<connected_nodes, reqVars, protoVars, drain>>

\* the request server before its first request
ReqIdle ==
  /\ canonical_head = GenesisRoot
  /\ walk = [pc |-> "idle"]
  /\ reply = [cmd |-> "none"]
  /\ reads = <<>>

\* the receive server after construction, with the peers of peer_pool
RecvIdle(peer_pool) ==
  /\ connected_nodes = peer_pool
  /\ chain_db = {GenesisRoot}
  /\ chain_attestations = {}
  /\ attestation_pool = {}
  /\ orphan_block_pool = {}
  /\ map_request_id_block_root = <<>>
  /\ next_request_id = 1
  /\ handled = NoMessage
  /\ outcome = "none"
  /\ returned = "none"
  /\ sent = <<>>
  /\ import_calls = <<>>

\* _try_import_orphan_blocks is not being stepped through
NoDrain ==
  [pc |-> "idle", parent_root |-> NoRoot, imported_roots |-> <<>>,
   children |-> <<>>, verdict |-> <<>>, order |-> <<>>]

RecvInit ==
  /\ ReqIdle
  /\ ProtoIdle
  /\ drain = NoDrain
  /\ \E peer_pool \in PeerPools : RecvIdle(peer_pool)

\* the verdicts and iteration orders a run can depend on: import_block is
\* called on the received block and on blocks popped from the orphan pool
\* only, and on none when the handler returns before the import pipeline
ChainInputs(reaches_pipeline, block) ==
  IF reaches_pipeline
  THEN {v \in Verdicts :
          \A r \in BlockRoots :
            (r # block.signing_root
               /\ ~orphan_block_pool_contains(orphan_block_pool, r))
            => v[r] = "ok"} \X IterationOrders
  ELSE {<<AllOk, AllBlocksAscending>>}

ReceiveAttestations ==
  /\ handled = NoMessage
  /\ \E peer \in Peers, attestations \in SeqsUpTo(Attestations, MaxAttestations) :
    \E accepted \in SUBSET Range(attestations), raises \in BOOLEAN :
      Finish(handle_attestations(
               ServerState, peer,
               [encoded_attestations |->
                  [i \in 1..Len(attestations) |-> ssz_encode(attestations[i])]],
               accepted, raises),
             Handled("Attestations", peer, NoBlock, 0, <<>>, attestations,
                     accepted))

ReceiveNewBeaconBlock ==
  /\ handled = NoMessage
  /\ \E peer \in Peers, block \in ReceivedBlocks :
    \E inputs \in ChainInputs(peer.is_operational
                              /\ ~is_block_seen(ServerState, block), block) :
      Finish(handle_new_beacon_block(
               ServerState, peer, [encoded_block |-> ssz_encode(block)],
               inputs[1], inputs[2]),
             Handled("NewBeaconBlock", peer, block, 0, <<>>, <<>>, {}))

\* a reply carries n copies of one block: the handler reads the length of the
\* list and its first element only
ReceiveBeaconBlocks ==
  /\ handled = NoMessage
  /\ \E peer \in Peers, request_id \in 1..MaxRequestId,
     block \in ReceivedBlocks, n \in 0..MaxReplyBlocks :
    \E inputs \in ChainInputs(peer.is_operational /\ n = 1
                              /\ request_id \in DOMAIN map_request_id_block_root,
                              block) :
      LET blocks == [i \in 1..n |-> block]
      IN  Finish(handle_beacon_blocks(
                   ServerState, peer,
                   [request_id |-> request_id,
                    encoded_blocks |-> [i \in 1..n |-> ssz_encode(blocks[i])]],
                   inputs[1], inputs[2]),
                 Handled("BeaconBlocks", peer,
                         IF n = 0 THEN NoBlock ELSE block,
                         request_id, blocks, <<>>, {}))

\* the handler has returned or raised: the server loop (_handle_msg's
\* caller) waits for the next message
AwaitMessage ==
  /\ handled # NoMessage
  /\ handled' = NoMessage
  /\ outcome' = "none"
  /\ returned' = "none"
  /\ sent' = <<>>
  /\ import_calls' = <<>>
  /\ UNCHANGED <<connected_nodes, chain_db, chain_attestations,
                 attestation_pool, orphan_block_pool,
                 map_request_id_block_root, next_request_id, reqVars,
                 protoVars, drain>>

RecvNext ==
  \/ ReceiveAttestations
  \/ ReceiveNewBeaconBlock
  \/ ReceiveBeaconBlocks
  \/ AwaitMessage

Spec == RecvInit /\ [][RecvNext]_vars

(***************************************************************************)
(* BCCRequestServer (servers.py:98-201).  The handler suspends at each     *)
(* read of the DB; the canonical chain can change while it is suspended.   *)
(* The DB holds the blocks of ChainRoots; its canonical chain is the       *)
(* ancestry of canonical_head.                                             *)
(***************************************************************************)
BlockNotFound == [signing_root |-> NoRoot, signature |-> 0]
StoredBlock(root) == [signing_root |-> root, signature |-> 0]
slot_of(block) == SlotOf[block.signing_root]
RequestSlots == 0..4

\* db.coro_get_canonical_block_by_slot
RECURSIVE canonical_root_at(_, _)
canonical_root_at(head, slot) ==
  IF head = NoRoot THEN NoRoot
  ELSE IF SlotOf[head] = slot THEN head
  ELSE IF SlotOf[head] < slot THEN NoRoot
  ELSE canonical_root_at(ParentOf[head], slot)
get_canonical_block_by_slot(head, slot) ==
  IF canonical_root_at(head, slot) = NoRoot THEN BlockNotFound
  ELSE StoredBlock(canonical_root_at(head, slot))

\* db.coro_get_block_by_root
get_block_by_root(root) ==
  IF root \in ChainRoots THEN StoredBlock(root) ELSE BlockNotFound

\* the test of _get_blocks that a fetched block continues the chain, read
\* from a walk always true
is_connected_unchecked(block, parent) == TRUE

\* block.parent_root == parent.signing_root
is_connected(block, parent) == parent_root(block) = parent.signing_root

\* send_blocks called without the request's request_id
SendBlocks_no_request_id(blocks, request, left) ==
  [cmd |-> "send_blocks", blocks |-> blocks,
   request_id |-> 0, request |-> request, left |-> left]

\* peer.sub_proto.send_blocks(blocks, request_id), with the request served
\* and how _get_blocks was left
SendBlocks(blocks, request, left) ==
  [cmd |-> "send_blocks", blocks |-> blocks,
   request_id |-> request.request_id, request |-> request, left |-> left]
NoReply == [cmd |-> "none"]
Idle == [pc |-> "idle"]

\* the range of _get_blocks reaching one slot further
Suspended_one_more(request, blocks, parent, slot, end) ==
  [pc |-> "walk", request |-> request, blocks |-> blocks, parent |-> parent,
   slot |-> slot, end |-> end + 1]

\* _get_blocks suspended at the read of the canonical block of a slot
Suspended(request, blocks, parent, slot, end) ==
  [pc |-> "walk", request |-> request, blocks |-> blocks, parent |-> parent,
   slot |-> slot, end |-> end]

\* BCCRequestServer._handle_get_beacon_blocks up to the first read of the
\* walk: the start block is resolved, then _get_blocks yields it
handle_get_beacon_blocks(request, head) ==
  LET start_block ==
        IF request.block_slot_or_root.type = "int"
        THEN get_canonical_block_by_slot(head, request.block_slot_or_root.value)
        ELSE get_block_by_root(request.block_slot_or_root.value)
      start == slot_of(start_block) + 1
      end == start + request.max_blocks - 1
  IN  IF start_block = BlockNotFound
      THEN [walk |-> Idle, reply |-> SendBlocks(<<>>, request, "not called")]
      ELSE IF request.max_blocks < 0
      THEN [walk |-> Idle, reply |-> [cmd |-> "raised", request |-> request]]
      ELSE IF request.max_blocks = 0
      THEN [walk |-> Idle, reply |-> SendBlocks(<<>>, request, "return")]
      ELSE IF start >= end
      THEN [walk |-> Idle,
            reply |-> SendBlocks(<<start_block>>, request, "range end")]
      ELSE [walk |-> Suspended(request, <<start_block>>, start_block, start, end),
            reply |-> NoReply]

\* one round of the for loop of _get_blocks: the read returns, the block is
\* yielded or the loop left, and the next read suspends the walk again
get_blocks_round(w, head) ==
  LET block == get_canonical_block_by_slot(head, w.slot)
  IN  IF block = BlockNotFound
      THEN [walk |-> Idle,
            reply |-> SendBlocks(w.blocks, w.request, "BlockNotFound")]
      ELSE IF ~is_connected(block, w.parent)
      THEN [walk |-> Idle, reply |-> SendBlocks(w.blocks, w.request, "break")]
      ELSE IF w.slot + 1 >= w.end
      THEN [walk |-> Idle,
            reply |-> SendBlocks(Append(w.blocks, block), w.request,
                                 "range end")]
      ELSE [walk |-> Suspended(w.request, Append(w.blocks, block), block,
                               w.slot + 1, w.end),
            reply |-> NoReply]

GetBeaconBlocksMessages ==
  [request_id : 1..MaxRequestId,
   block_slot_or_root :
     [type : {"int"}, value : RequestSlots]
       \cup [type : {"bytes"}, value : ChainRoots \cup {UnknownRoot}],
   max_blocks : (0 - 1)..MaxBlocks]

ReceiveGetBeaconBlocks ==
  /\ walk = Idle
  /\ reply = NoReply
  /\ \E request \in GetBeaconBlocksMessages :
       LET r == handle_get_beacon_blocks(request, canonical_head)
       IN  walk' = r.walk /\ reply' = r.reply
  /\ reads' = <<canonical_head>>
  /\ UNCHANGED <<canonical_head, recvVars, protoVars, drain>>

ResumeGetBlocks ==
  /\ walk # Idle
  /\ LET r == get_blocks_round(walk, canonical_head)
     IN  walk' = r.walk /\ reply' = r.reply
  /\ reads' = Append(reads, canonical_head)
  /\ UNCHANGED <<canonical_head, recvVars, protoVars, drain>>

\* the handler has returned: the server waits for the next request
AwaitRequest ==
  /\ walk = Idle
  /\ reply # NoReply
  /\ reply' = NoReply
  /\ reads' = <<>>
  /\ UNCHANGED <<canonical_head, walk, recvVars, protoVars, drain>>

\* another task makes another block the head of the canonical chain
Reorg ==
  /\ \E head \in ChainRoots \ {canonical_head} : canonical_head' = head
  /\ UNCHANGED <<walk, reply, reads, recvVars, protoVars, drain>>

ReqInit ==
  /\ ReqIdle
  /\ ProtoIdle
  /\ drain = NoDrain
  /\ RecvIdle(<<>>)

ReqNext ==
  \/ ReceiveGetBeaconBlocks
  \/ ResumeGetBlocks
  \/ AwaitRequest
  \/ Reorg

RequestSpec == ReqInit /\ [][ReqNext]_vars

(***************************************************************************)
(* The two pools driven through their own operations.                      *)
(***************************************************************************)
PoolFrame ==
  UNCHANGED <<connected_nodes, chain_db, chain_attestations,
              map_request_id_block_root, next_request_id, handled, outcome,
              returned, sent, import_calls, reqVars, protoVars, drain>>

PoolAdd ==
  /\ \E attestation \in Attestations :
       attestation_pool' = attestation_pool_add(attestation_pool, attestation)
  /\ UNCHANGED orphan_block_pool
  /\ PoolFrame

PoolBatchAdd ==
  /\ \E attestations \in SeqsUpTo(Attestations, MaxAttestations) :
       attestation_pool' =
         attestation_pool_batch_add(attestation_pool, attestations)
  /\ UNCHANGED orphan_block_pool
  /\ PoolFrame

PoolRemove ==
  /\ \E attestation \in Attestations :
       attestation_pool' =
         attestation_pool_remove(attestation_pool, attestation)
  /\ UNCHANGED orphan_block_pool
  /\ PoolFrame

PoolBatchRemove ==
  /\ \E attestations \in SeqsUpTo(Attestations, MaxAttestations) :
       attestation_pool' =
         attestation_pool_batch_remove(attestation_pool, attestations)
  /\ UNCHANGED orphan_block_pool
  /\ PoolFrame

OrphanPoolAdd ==
  /\ \E block \in Blocks :
       orphan_block_pool' = orphan_block_pool_add(orphan_block_pool, block)
  /\ UNCHANGED attestation_pool
  /\ PoolFrame

OrphanPoolPopChildren ==
  /\ \E block_root \in ChainRoots, order \in IterationOrders :
       orphan_block_pool' =
         pop_children(orphan_block_pool, block_root, order).pool
  /\ UNCHANGED attestation_pool
  /\ PoolFrame

PoolInit ==
  /\ ReqIdle
  /\ ProtoIdle
  /\ drain = NoDrain
  /\ RecvIdle(<<>>)

PoolNext ==
  \/ PoolAdd
  \/ PoolBatchAdd
  \/ PoolRemove
  \/ PoolBatchRemove
  \/ OrphanPoolAdd
  \/ OrphanPoolPopChildren

PoolSpec == PoolInit /\ [][PoolNext]_vars

(***************************************************************************)
(* The protocol driver sending handshakes.                                 *)
(***************************************************************************)
SendHandshake ==
  /\ Len(transport) < MaxTransport
  /\ \E handshake_params \in BCCHandshakeParams :
       LET r == send_handshake(transport, handshake_params)
       IN  /\ transport' = r.transport
           /\ handshake' = [params |-> handshake_params, raised |-> r.raised]
  /\ UNCHANGED <<recvVars, reqVars, drain>>

HandshakeInit ==
  /\ ReqIdle
  /\ RecvIdle(<<>>)
  /\ ProtoIdle
  /\ drain = NoDrain

HandshakeNext == SendHandshake

HandshakeSpec == HandshakeInit /\ [][HandshakeNext]_vars

(***************************************************************************)
(* _try_import_orphan_blocks (servers.py:487-517) run step by step, one    *)
(* step per round of its while loop and of its for loop.  It is called     *)
(* right after block 1 was imported, with orphans that arrived before      *)
(* their parents in the pool; the chain's verdicts on them and the         *)
(* iteration order of the pool's set are fixed for the run.                *)
(***************************************************************************)
DrainBlocks == {[signing_root |-> r, signature |-> 0] : r \in DrainRoots}
DrainBlocksAscending ==
  [i \in 1..Cardinality(DrainRoots) |-> [signing_root |-> i + 1, signature |-> 0]]
DrainOrders == {DrainBlocksAscending, Reverse(DrainBlocksAscending)}
\* chain.import_block succeeds or fails with ValidationError
DrainVerdicts == [DrainRoots -> {"ok", "invalid"}]

\* the server's state inside the run, with the import calls made so far
DrainState == [ServerState EXCEPT !.imports = import_calls]

DrainFrame ==
  UNCHANGED <<connected_nodes, map_request_id_block_root, next_request_id,
              handled, outcome, returned, sent, reqVars, protoVars>>

\* imported_roots = [parent_root], before the first round of the while loop
DrainInit ==
  /\ ReqIdle
  /\ ProtoIdle
  /\ connected_nodes = <<>>
  /\ chain_db = {GenesisRoot, 1}
  /\ chain_attestations = {a.hash_tree_root : a \in Range(BodyOf[1])}
  /\ attestation_pool \in SUBSET Attestations
  /\ orphan_block_pool \in SUBSET DrainBlocks
  /\ map_request_id_block_root = <<>>
  /\ next_request_id = 1
  /\ handled = NoMessage
  /\ outcome = "none"
  /\ returned = "none"
  /\ sent = <<>>
  /\ import_calls = <<>>
  /\ \E verdict \in DrainVerdicts, order \in DrainOrders :
       drain = [pc |-> "while", parent_root |-> 1, imported_roots |-> <<1>>,
                children |-> <<>>, verdict |-> verdict, order |-> order]

\* a round of the while loop up to the for loop: a root is taken from the
\* worklist and, when it is in the DB, its children are popped from the pool
DrainTakeRoot ==
  /\ drain.pc = "while"
  /\ drain.imported_roots # <<>>
  /\ drain.children = <<>>
  /\ LET next == next_parent_root(drain.imported_roots)
         popped == pop_children(orphan_block_pool, next.root, drain.order)
     IN  IF ~is_block_root_in_db(DrainState, next.root)
         THEN /\ drain' = [drain EXCEPT !.imported_roots = next.rest]
              /\ UNCHANGED orphan_block_pool
         ELSE /\ drain' = [drain EXCEPT !.imported_roots = next.rest,
                                        !.children = popped.children]
              /\ orphan_block_pool' = popped.pool
  /\ UNCHANGED <<chain_db, chain_attestations, attestation_pool, import_calls>>
  /\ DrainFrame

\* a round of the for loop: the next popped child is imported
DrainImportChild ==
  /\ drain.pc = "while"
  /\ drain.children # <<>>
  /\ LET r == import_children(DrainState, drain.imported_roots,
                              <<Head(drain.children)>>, drain.verdict)
     IN  /\ chain_db' = r.s.db
         /\ chain_attestations' = r.s.atts
         /\ attestation_pool' = r.s.apool
         /\ import_calls' = r.s.imports
         /\ drain' = [drain EXCEPT !.imported_roots = r.imported_roots,
                                   !.children = Tail(drain.children)]
  /\ UNCHANGED orphan_block_pool
  /\ DrainFrame

\* the while loop finds its worklist empty and the method returns
DrainReturn ==
  /\ drain.pc = "while"
  /\ drain.imported_roots = <<>>
  /\ drain.children = <<>>
  /\ drain' = [drain EXCEPT !.pc = "done"]
  /\ UNCHANGED <<chain_db, chain_attestations, attestation_pool,
                 orphan_block_pool, import_calls>>
  /\ DrainFrame

DrainNext ==
  \/ DrainTakeRoot
  \/ DrainImportChild
  \/ DrainReturn

\* the method is synchronous code: once called it runs on
DrainSpec == DrainInit /\ [][DrainNext]_vars /\ WF_vars(DrainNext)

(***************************************************************************)
(* Properties of the receive server.  A step from a state with             *)
(* handled = NoMessage is one handler run: the unprimed variables are the  *)
(* server before the run, the primed ones the server after it.             *)
(***************************************************************************)
HandlerRun == handled = NoMessage /\ handled' # NoMessage

\* the sends of one kind among a sequence of sends
SendsOf(sends, cmd) ==
  LET IsCmd(m) == m.cmd = cmd IN SelectSeq(sends, IsCmd)
Broadcasts(sends) ==
  LET IsBroadcast(m) == m.cmd \in {"send_new_block", "send_attestation_records"}
  IN  SelectSeq(sends, IsBroadcast)
\* the connected peers whose remote differs from the sender's
OtherPeers(from_peer) ==
  LET Differs(peer) == peer.remote # from_peer.remote
  IN  SelectSeq(connected_nodes, Differs)
Recipients(sends) == [i \in 1..Len(sends) |-> sends[i].to]

\* C1: no broadcast (send_new_block, send_attestation_records) emitted while
\* a message from peer P is handled goes to a peer with P's remote identity.
C1_BroadcastNonEcho ==
  \A i \in 1..Len(sent) :
    sent[i].cmd \in {"send_new_block", "send_attestation_records"}
      => sent[i].to.remote # handled.peer.remote

\* C1 witness: a broadcast was emitted for a message whose sender is another
\* peer object of a connected remote, and that remote got nothing.
C1_Witness ==
  /\ Len(Broadcasts(sent)) > 0
  /\ handled.peer \notin Range(connected_nodes)
  /\ \E i \in 1..Len(connected_nodes) :
       connected_nodes[i].remote = handled.peer.remote

\* C2 (as claimed): after any BeaconBlocks reply from an operational peer
\* whose request_id is in the pending-request table, whatever blocks it
\* carries, that request_id is no longer in the table.
C2_PendingRequestRemoved ==
  [][(HandlerRun /\ handled'.cmd = "BeaconBlocks"
        /\ handled'.peer.is_operational
        /\ handled'.request_id \in DOMAIN map_request_id_block_root)
       => handled'.request_id \notin DOMAIN map_request_id_block_root']_vars

\* the orphans reachable from a root by parent_root links through the pool
RECURSIVE Descendants(_, _)
Descendants(root, pool) ==
  LET children == {c \in pool : parent_root(c) = root}
  IN  children \cup UNION {Descendants(c.signing_root, pool) : c \in children}

\* C4: whenever process_received_block(b) returns true, afterwards no block
\* of the orphan pool that descends from b through the orphan pool has its
\* parent_root in the chain DB.
C4_OrphanDrainageComplete ==
  [][(HandlerRun /\ returned' = "true")
       => \A c \in orphan_block_pool' :
            c \in Descendants(handled'.block.signing_root, orphan_block_pool)
              => parent_root(c) \notin chain_db']_vars

\* C4 witness: process_received_block returned true after a drainage that
\* imported a child of the block and then a grandchild.
C4_Witness ==
  /\ returned = "true"
  /\ \E i \in 1..Len(import_calls) :
       /\ import_calls[i].verdict = "ok"
       /\ import_calls[i].block # handled.block
       /\ parent_root(import_calls[i].block) # handled.block.signing_root

\* C6 (as claimed): when process_received_block imports a block, afterwards
\* no attestation of block.body.attestations is in the attestation pool and
\* every other member of the pool is still there.
C6_AttestationsRemovedOnImport ==
  [][(HandlerRun /\ returned' = "true")
       => attestation_pool' =
            attestation_pool \ Range(BodyOf[handled'.block.signing_root])]_vars

\* the block's signing_root is already in the orphan pool or the chain DB
AlreadySeen(block) ==
  \/ block.signing_root \in chain_db
  \/ \E b \in orphan_block_pool : b.signing_root = block.signing_root

\* C7: when the NewBeaconBlock handler is given, by operational peer P, an
\* unseen block whose parent is in the chain DB and the import pipeline
\* reports the import as successful, the block is in the DB afterwards and
\* send_new_block(block) went once to each connected peer whose remote
\* differs from P's and to no one else; when the pipeline returned false
\* (orphan or ValidationError) no send_new_block was emitted.
C7_GossipOfNewBlock ==
  [][(HandlerRun /\ handled'.cmd = "NewBeaconBlock"
        /\ handled'.peer.is_operational)
       => /\ (/\ ~AlreadySeen(handled'.block)
              /\ parent_root(handled'.block) \in chain_db
              /\ import_calls' # <<>>
              /\ import_calls'[1].block = handled'.block
              /\ import_calls'[1].verdict = "ok"
              /\ outcome' = "returned")
             => /\ returned' = "true"
                /\ handled'.block.signing_root \in chain_db'
                /\ Recipients(sent') = OtherPeers(handled'.peer)
                /\ \A i \in 1..Len(sent') :
                     /\ sent'[i].cmd = "send_new_block"
                     /\ sent'[i].block = handled'.block
          /\ returned' = "false"
             => SendsOf(sent', "send_new_block") = <<>>]_vars

\* C7 witness: a block from connected peer P was imported and broadcast to
\* the other connected peer only.
C7_Witness ==
  /\ handled.cmd = "NewBeaconBlock"
  /\ returned = "true"
  /\ Len(connected_nodes) = 2
  /\ handled.peer \in Range(connected_nodes)
  /\ Len(SendsOf(sent, "send_new_block")) = 1

\* what a handler run leaves alone when it raises a protocol fault
NothingDone ==
  /\ sent' = <<>>
  /\ import_calls' = <<>>
  /\ orphan_block_pool' = orphan_block_pool
  /\ attestation_pool' = attestation_pool
  /\ map_request_id_block_root' = map_request_id_block_root

\* C8 (as claimed): a NewBeaconBlock whose signing_root is already in the
\* orphan pool or the chain DB makes the handler raise a fault, emit nothing,
\* import nothing and leave the pools and the pending-request table alone.
C8_DuplicateBlockFaultAnyPeer ==
  [][(HandlerRun /\ handled'.cmd = "NewBeaconBlock"
        /\ AlreadySeen(handled'.block))
       => (outcome' = "fault" /\ NothingDone)]_vars

\* C8 (amended): the same for a NewBeaconBlock from an operational peer; from
\* a peer that is not operational the handler returns without a fault, and
\* also does nothing.
C8_DuplicateBlockFault ==
  [][(HandlerRun /\ handled'.cmd = "NewBeaconBlock"
        /\ AlreadySeen(handled'.block))
       => /\ NothingDone
          /\ handled'.peer.is_operational => outcome' = "fault"
          /\ ~handled'.peer.is_operational => outcome' = "ignored"]_vars

\* C8 witness: an operational peer sent a block that is in the orphan pool,
\* under another signature, and the handler raised the fault.
C8_Witness ==
  /\ handled.cmd = "NewBeaconBlock"
  /\ handled.peer.is_operational
  /\ outcome = "fault"
  /\ handled.block \notin orphan_block_pool
  /\ orphan_block_pool_contains(orphan_block_pool, handled.block.signing_root)

\* the elements of an Attestations message that pass validation and that
\* chain.attestation_exists does not report as present
ValidUnknown(msg) ==
  LET Keep(a) == a \in msg.accepted /\ a.hash_tree_root \notin chain_attestations
  IN  SelectSeq(msg.attestations, Keep)

\* C9 (as claimed): for an Attestations message from operational peer P, the
\* attestations added to the pool and carried by send_attestation_records,
\* to every connected peer but P, are exactly the elements that pass
\* validation and that the chain does not report as present.
C9_AttestationFiltering ==
  [][(HandlerRun /\ handled'.cmd = "Attestations"
        /\ handled'.peer.is_operational)
       => /\ attestation_pool' =
               attestation_pool \cup Range(ValidUnknown(handled'))
          /\ \A i \in 1..Len(sent') :
               /\ sent'[i].cmd = "send_attestation_records"
               /\ sent'[i].attestations = ValidUnknown(handled')
          /\ ValidUnknown(handled') # <<>>
               => Recipients(sent') = OtherPeers(handled'.peer)]_vars

\* C10 (as claimed): an attestation whose hash_tree_root is in the pool when
\* an Attestations message arrives is carried by no send_attestation_records
\* of that message, and when every valid attestation of the message is
\* already seen (in the pool or reported by the chain) nothing is sent.
C10_PooledNotGossipedAgain ==
  [][(HandlerRun /\ handled'.cmd = "Attestations")
       => /\ \A i \in 1..Len(sent') :
               \A a \in Range(sent'[i].attestations) :
                 ~attestation_pool_contains(attestation_pool, a.hash_tree_root)
          /\ (\A a \in handled'.accepted :
                \/ attestation_pool_contains(attestation_pool, a.hash_tree_root)
                \/ a.hash_tree_root \in chain_attestations)
             => sent' = <<>>]_vars

\* what process_received_block does with an orphan it accepts: it returns
\* false, the block is in the orphan pool, each connected peer (the sender
\* included) is sent one GetBeaconBlocks(parent_root, max_blocks=1) under a
\* request_id of its own that the pending-request table maps to parent_root,
\* and the block is neither imported nor broadcast
OrphanReceipt ==
  /\ returned' = "false"
  /\ handled'.block \in orphan_block_pool'
  /\ import_calls' = <<>>
  /\ Len(sent') = Len(connected_nodes)
  /\ \A i \in 1..Len(sent') :
       /\ sent'[i].cmd = "send_get_blocks"
       /\ sent'[i].to = connected_nodes[i]
       /\ sent'[i].block_root = parent_root(handled'.block)
       /\ sent'[i].max_blocks = 1
       /\ sent'[i].request_id \in DOMAIN map_request_id_block_root'
       /\ map_request_id_block_root'[sent'[i].request_id]
            = parent_root(handled'.block)
  /\ \A i, j \in 1..Len(sent') :
       i # j => sent'[i].request_id # sent'[j].request_id

\* a handler run that called process_received_block on a block whose
\* parent_root is not in the chain DB
OrphanGiven ==
  /\ HandlerRun
  /\ returned' # "none"
  /\ parent_root(handled'.block) \notin chain_db

\* C11 (as claimed): whenever process_received_block is given a block whose
\* parent_root is not in the chain DB, it returns false, the block is in the
\* orphan pool afterwards, one GetBeaconBlocks(parent_root, 1) goes to every
\* connected peer under its own request_id recorded in the pending-request
\* table, and the block is not imported and not broadcast.
C11_OrphanReceiptAlways ==
  [][OrphanGiven => OrphanReceipt]_vars

\* C11 (amended): the same for a block whose signing_root is not yet in the
\* orphan pool; for a block whose signing_root is already in the orphan pool
\* process_received_block returns false, sends nothing, imports nothing and
\* leaves both pools as they are.
C11_OrphanReceipt ==
  [][OrphanGiven
       => IF \E b \in orphan_block_pool :
               b.signing_root = handled'.block.signing_root
          THEN /\ returned' = "false"
               /\ sent' = <<>>
               /\ import_calls' = <<>>
               /\ orphan_block_pool' = orphan_block_pool
               /\ attestation_pool' = attestation_pool
          ELSE OrphanReceipt]_vars

\* C11 witness: an orphan from a connected peer, with two peers connected,
\* was pooled and its parent requested from both, the sender included.
C11_Witness ==
  /\ handled.cmd = "NewBeaconBlock"
  /\ returned = "false"
  /\ handled.block \in orphan_block_pool
  /\ handled.peer \in Range(connected_nodes)
  /\ Len(connected_nodes) = 2
  /\ Len(SendsOf(sent, "send_get_blocks")) = 2
  /\ \E i \in 1..Len(sent) : sent[i].to = handled.peer

\* C12: with C in the orphan pool, its parent B unknown and B's parent in the
\* chain DB, a BeaconBlocks reply carrying exactly [B] under a request_id
\* issued for B, every import of the run being valid, leaves B and C in the
\* chain DB, C out of the orphan pool, the request_id no longer pending, and
\* has sent no send_new_block.
C12_OrphanResolution ==
  [][(/\ HandlerRun
      /\ handled'.cmd = "BeaconBlocks"
      /\ handled'.peer.is_operational
      /\ Len(handled'.blocks) = 1
      /\ handled'.request_id \in DOMAIN map_request_id_block_root
      /\ map_request_id_block_root[handled'.request_id]
           = handled'.block.signing_root
      /\ handled'.block.signing_root \notin chain_db
      /\ parent_root(handled'.block) \in chain_db
      /\ \A i \in 1..Len(import_calls') : import_calls'[i].verdict = "ok")
       => /\ handled'.block.signing_root \in chain_db'
          /\ \A c \in orphan_block_pool :
               parent_root(c) = handled'.block.signing_root
                 => c.signing_root \in chain_db' /\ c \notin orphan_block_pool'
          /\ handled'.request_id \notin DOMAIN map_request_id_block_root'
          /\ SendsOf(sent', "send_new_block") = <<>>]_vars

\* C12 witness: the reply brought B, and the drainage imported an orphan C
\* that waited for it; other peers are connected and got no block.
C12_Witness ==
  /\ handled.cmd = "BeaconBlocks"
  /\ returned = "true"
  /\ Len(connected_nodes) = 2
  /\ Len(import_calls) >= 2
  /\ import_calls[1].block = handled.block
  /\ ~import_calls[1].known
  /\ parent_root(import_calls[2].block) = handled.block.signing_root
  /\ import_calls[2].verdict = "ok"
  /\ handled.request_id \notin DOMAIN map_request_id_block_root

\* C16: a message from a peer whose is_operational flag is false raises no
\* fault, sends nothing, imports nothing and leaves the attestation pool, the
\* orphan pool and the pending-request table as they are.
C16_NonOperationalIgnored ==
  [][(HandlerRun /\ ~handled'.peer.is_operational)
       => (outcome' \notin {"fault", "fatal"} /\ NothingDone)]_vars

\* C16 witness: a peer that is not operational sent a block that the server
\* has not seen and whose parent is in the chain DB.
C16_Witness ==
  /\ handled.cmd = "NewBeaconBlock"
  /\ ~handled.peer.is_operational
  /\ ~AlreadySeen(handled.block)
  /\ parent_root(handled.block) \in chain_db
  /\ outcome = "ignored"

\* C17: a BeaconBlocks message from an operational peer raises a fault when
\* its request_id is not pending, when it does not carry exactly one block, or
\* when the block's signing_root differs from the root recorded for the
\* request_id; then no block is imported, nothing is added to the orphan
\* pool, the attestation pool is unchanged and nothing is sent.
C17_BeaconBlocksFaults ==
  [][(/\ HandlerRun
      /\ handled'.cmd = "BeaconBlocks"
      /\ handled'.peer.is_operational
      /\ \/ handled'.request_id \notin DOMAIN map_request_id_block_root
         \/ Len(handled'.blocks) # 1
         \/ handled'.blocks[1].signing_root
              # map_request_id_block_root[handled'.request_id])
       => /\ outcome' = "fault"
          /\ import_calls' = <<>>
          /\ orphan_block_pool' = orphan_block_pool
          /\ attestation_pool' = attestation_pool
          /\ sent' = <<>>]_vars

\* C17 witness: a reply of one block under a pending request_id that was
\* issued for another root, the block's parent being in the chain DB.
C17_Witness ==
  /\ handled.cmd = "BeaconBlocks"
  /\ handled.peer.is_operational
  /\ outcome = "fault"
  /\ Len(handled.blocks) = 1
  /\ handled.request_id \in DOMAIN map_request_id_block_root
  /\ map_request_id_block_root[handled.request_id]
       # handled.block.signing_root
  /\ parent_root(handled.block) \in chain_db
  /\ ~AlreadySeen(handled.block)

PoolConsistent(pool, db) ==
  \A b \in pool : b.signing_root \notin db /\ parent_root(b) \notin db

\* a block leaves the orphan pool only popped as the child of a block that is
\* in the chain DB
LeavesByPopOnly ==
  \A b \in orphan_block_pool \ orphan_block_pool' :
    parent_root(b) \in chain_db'

C23_NoRepeatedImport ==
  \A i \in 1..Len(import_calls) : ~import_calls[i].known

\* C24: every send_new_block carries the block of the NewBeaconBlock message
\* being handled, that block is in the chain DB when it is sent, and a
\* message causes at most one send_new_block per connected peer; blocks
\* imported by the drainage or by the BeaconBlocks handler are not broadcast.
C24_OnlyGossipedImportedBlocksBroadcast ==
  [][HandlerRun =>
       /\ \A i \in 1..Len(sent') :
            sent'[i].cmd = "send_new_block"
              => /\ handled'.cmd = "NewBeaconBlock"
                 /\ sent'[i].block = handled'.block
                 /\ sent'[i].block.signing_root \in chain_db'
                 /\ import_calls' # <<>>
                 /\ import_calls'[1].block = handled'.block
                 /\ import_calls'[1].verdict = "ok"
                 /\ sent'[i].to \in Range(connected_nodes)
       /\ \A i, j \in 1..Len(sent') :
            (/\ i # j
             /\ sent'[i].cmd = "send_new_block"
             /\ sent'[j].cmd = "send_new_block")
              => sent'[i].to # sent'[j].to]_vars

\* C24 witness: a new block of a peer that is not in the pool was imported,
\* the drainage imported two orphans after it, and every send of the run
\* carries the new block.
C24_Witness ==
  /\ handled.cmd = "NewBeaconBlock"
  /\ Len(import_calls) >= 3
  /\ \A i \in 1..Len(import_calls) : import_calls[i].verdict = "ok"
  /\ handled.peer \notin Range(connected_nodes)
  /\ Len(SendsOf(sent, "send_new_block")) >= 1
  /\ \A i \in 1..Len(sent) : sent[i].block = handled.block

(***************************************************************************)
(* Properties of the request server and of the pools.                      *)
(***************************************************************************)
Connected(blocks) ==
  \A i \in 1..(Len(blocks) - 1) :
    parent_root(blocks[i + 1]) = blocks[i].signing_root

\* C3: in every reply to a GetBeaconBlocks request each block's parent_root
\* is the signing_root of the block before it, also when the canonical chain
\* changes between the reads of the walk.
C3_ServedRangeConnected ==
  reply.cmd = "send_blocks" => Connected(reply.blocks)

\* C3 witness: a reply of two or more blocks whose walk was left at a block
\* that does not continue the chain: the canonical chain changed during the
\* walk, or the start block is off the canonical chain.
C3_Witness ==
  /\ reply.cmd = "send_blocks"
  /\ Len(reply.blocks) >= 2
  /\ reply.left = "break"

\* the start block of a request as the DB resolves it under a canonical head
StartBlock(request, head) ==
  IF request.block_slot_or_root.type = "int"
  THEN get_canonical_block_by_slot(head, request.block_slot_or_root.value)
  ELSE get_block_by_root(request.block_slot_or_root.value)

\* a step of the request server that takes a request, and one that resumes
\* the walk of a request
RequestTaken ==
  /\ walk = Idle
  /\ reply = NoReply
  /\ reads' # <<>>
WalkResumed ==
  /\ walk # Idle
  /\ canonical_head' = canonical_head

\* C13: for every GetBeaconBlocks request with max_blocks >= 0 exactly one
\* send_blocks reply is emitted, when the handler ends and not before, and it
\* carries the request's request_id; the reply is empty when the start slot
\* or root resolves to no block and when max_blocks = 0.
C13_EmptyReplies ==
  [][/\ RequestTaken =>
          LET request == IF walk' = Idle THEN reply'.request
                         ELSE walk'.request
          IN  request.max_blocks >= 0 =>
                /\ walk' = Idle =>
                     /\ reply'.cmd = "send_blocks"
                     /\ reply'.request_id = request.request_id
                /\ walk' # Idle => reply' = NoReply
                /\ (\/ StartBlock(request, canonical_head) = BlockNotFound
                    \/ request.max_blocks = 0)
                     => /\ walk' = Idle
                        /\ reply'.cmd = "send_blocks"
                        /\ reply'.blocks = <<>>
     /\ WalkResumed =>
          /\ walk' = Idle =>
               /\ reply'.cmd = "send_blocks"
               /\ reply'.request_id = walk.request.request_id
          /\ walk' # Idle =>
               /\ reply' = NoReply
               /\ walk'.request = walk.request
               /\ walk'.end - walk'.slot < walk.end - walk.slot]_vars

\* C13 witness: a request for several blocks from a slot that has no
\* canonical block was answered with the empty list.
C13_Witness ==
  /\ reply.cmd = "send_blocks"
  /\ reply.blocks = <<>>
  /\ reply.request.block_slot_or_root.type = "int"
  /\ reply.request.max_blocks > 1
  /\ reply.request_id = reply.request.request_id

\* the longest prefix of [S, canonical(S.slot+1), ...] of at most max_blocks
\* blocks in which every lookup succeeds and every block is the child of the
\* one before; the lookup of the k-th block sees the canonical head heads[k]
RECURSIVE LongestPrefix(_, _, _, _)
LongestPrefix(blocks, start_slot, max_blocks, heads) ==
  LET k == Len(blocks) + 1
      head == IF k <= Len(heads) THEN heads[k] ELSE heads[Len(heads)]
      block == get_canonical_block_by_slot(head, start_slot + k - 1)
  IN  IF k > max_blocks THEN blocks
      ELSE IF block = BlockNotFound THEN blocks
      ELSE IF parent_root(block) # blocks[Len(blocks)].signing_root THEN blocks
      ELSE LongestPrefix(Append(blocks, block), start_slot, max_blocks, heads)

\* C14: for a request whose start block S resolves and max_blocks >= 1, the
\* reply is the longest prefix of [S, canonical(S.slot+1), ...,
\* canonical(S.slot+max_blocks-1)] in which every lookup succeeds and every
\* block's parent_root is the signing_root of the block before: it starts
\* with S, has at most max_blocks blocks, of consecutive slots.
C14_ServedRangeShape ==
  (/\ reply.cmd = "send_blocks"
   /\ reply.request.max_blocks >= 1
   /\ StartBlock(reply.request, reads[1]) # BlockNotFound)
    => LET S == StartBlock(reply.request, reads[1])
       IN  /\ reply.blocks =
                LongestPrefix(<<S>>, slot_of(S), reply.request.max_blocks, reads)
           /\ reply.blocks[1] = S
           /\ Len(reply.blocks) <= reply.request.max_blocks
           /\ \A i \in 1..Len(reply.blocks) :
                slot_of(reply.blocks[i]) = slot_of(S) + i - 1

\* C14 witness: a request by slot for MaxBlocks blocks was answered with two,
\* the walk halting at a block that is not a child of the second.
C14_Witness ==
  /\ reply.cmd = "send_blocks"
  /\ reply.request.block_slot_or_root.type = "int"
  /\ reply.request.max_blocks = MaxBlocks
  /\ Len(reply.blocks) = 2
  /\ reply.left = "break"
  /\ Len(reads) = 3

\* C15: send_handshake with parameters whose protocol_version differs from
\* the driver's version fails with an error and hands nothing to the
\* transport; with an equal version it hands to the transport exactly one
\* Status message, carrying the four supplied parameters.
C15_HandshakeVersionCheck ==
  [][handshake' # NoHandshake =>
       IF handshake'.params.protocol_version # version
       THEN /\ handshake'.raised = "ValidationError"
            /\ transport' = transport
       ELSE /\ handshake'.raised = "none"
            /\ Len(transport') = Len(transport) + 1
            /\ SubSeq(transport', 1, Len(transport)) = transport
            /\ transport'[Len(transport')].header.cmd = "Status"
            /\ cmd_decode(transport'[Len(transport')]) = handshake'.params]_vars

\* C15 witness: after a Status message went out, a handshake with another
\* protocol version failed and left the transport as it was.
C15_Witness ==
  /\ handshake.raised = "ValidationError"
  /\ handshake.params.protocol_version # version
  /\ Len(transport) = 1

(***************************************************************************)
(* Properties of the orphan drainage.                                      *)
(***************************************************************************)
\* C19: for every orphan pool and every outcome of chain.import_block
\* (success or ValidationError) on each child, try_import_orphan_blocks
\* reaches an empty worklist and returns, and no orphan block is popped and
\* passed to import_block more than once during the run.
C19_DrainageTerminates ==
  /\ <>(drain.pc = "done")
  /\ [](\A i, j \in 1..Len(import_calls) :
          i # j => import_calls[i].block # import_calls[j].block)
  /\ [](\A i \in 1..Len(drain.children) :
          /\ drain.children[i] \notin orphan_block_pool
          /\ \A j \in 1..Len(import_calls) :
               import_calls[j].block # drain.children[i])

\* C19 witness: the run has returned after imports on both branches, one of
\* them rejected, leaving the descendants of the rejected block in the pool.
C19_Witness ==
  /\ drain.pc = "done"
  /\ Len(import_calls) >= 3
  /\ \E i \in 1..Len(import_calls) : import_calls[i].verdict = "invalid"
  /\ \E i \in 1..Len(import_calls) :
       /\ import_calls[i].verdict = "ok"
       /\ parent_root(import_calls[i].block) # drain.parent_root
  /\ orphan_block_pool # {}

\* the number of parent links from a block's root up to an ancestor's
RECURSIVE DepthBelow(_, _)
DepthBelow(root, ancestor) ==
  IF root = ancestor \/ root = NoRoot THEN 0
  ELSE 1 + DepthBelow(ParentOf[root], ancestor)

\* C20 (as claimed): during try_import_orphan_blocks(parent_root) the orphans
\* are passed to chain.import_block in the order of their distance from
\* parent_root: every orphan at depth d before any orphan at depth d+1.
C20_BreadthFirst ==
  \A i, j \in 1..Len(import_calls) :
    i < j => DepthBelow(import_calls[i].block.signing_root, drain.parent_root)
               <= DepthBelow(import_calls[j].block.signing_root,
                             drain.parent_root)

\* a round of the for loop of the drainage that imported its child
ChildImported ==
  /\ drain.pc = "while"
  /\ Len(import_calls') = Len(import_calls) + 1
  /\ import_calls'[Len(import_calls')].verdict = "ok"

\* C21 (as claimed): when try_import_orphan_blocks successfully imports a
\* child popped from the orphan pool, the attestations of the child's body
\* are removed from the attestation pool and the child's signing_root is
\* enqueued, so that its own children are drained.
C21_DrainageRemovesAttestations ==
  [][ChildImported =>
       LET child == import_calls'[Len(import_calls')].block
       IN  /\ \A a \in Range(BodyOf[child.signing_root]) :
                a \notin attestation_pool'
           /\ drain'.imported_roots =
                Append(drain.imported_roots, child.signing_root)]_vars

\* C5 (as claimed): after any sequence of add / batch_add calls no two
\* members of the attestation pool share a hash_tree_root, and after any
\* sequence of add calls no two members of the orphan block pool share a
\* signing_root.
C5_PoolUniqueness ==
  /\ \A a, b \in attestation_pool :
       a.hash_tree_root = b.hash_tree_root => a = b
  /\ \A a, b \in orphan_block_pool :
       a.signing_root = b.signing_root => a = b

====
